---- MODULE Spec2Model ----
(***************************************************************************)
(* SBM-Harness: the snapshot registry (sbm_snapshot.c), the checksum and   *)
(* bounds helpers (core_guards.c) and the guard macros (sbm_harness.h),    *)
(* modelled as a state machine whose steps are the API calls a caller can  *)
(* make, the caller's own writes to the guarded region, and the test-only  *)
(* back door that alters a stored payload.                                 *)
(*                                                                         *)
(* 32-bit unsigned values (uint32_t) are pairs <<hi, lo>> of 16-bit halves *)
(* so that rotation and increment keep their width.  Heap addresses are    *)
(* 1..MaxAddr; a snapshot handle is the address of its record, as in the   *)
(* code, and the payload buffer is kept inside the record it belongs to.   *)
(***************************************************************************)
EXTENDS Integers, Sequences, FiniteSets, TLC

(* ------------------------------ bounds -------------------------------- *)
\* Spec: every kind of call and argument, several records on the heap
NumRegions == 1      \* caller-owned state buffers
RegionLen  == 1      \* bytes per state buffer
MaxByte    == 1      \* byte values are 0..MaxByte
MaxAddr    == 2      \* heap addresses malloc can return for a record
MaxSeq     == 2      \* takes are explored while g_snapshot_sequence < MaxSeq
\* SpecTamper: one record at a time, wider data, the payload back door
TamperLen     == 2   \* bytes of the state buffer
TamperMaxByte == 2   \* byte values are 0..TamperMaxByte
\* SpecPair: snapshots of different state buffers, ended in either order
PairRegions == 2     \* caller-owned state buffers
\* SpecIsr: the copies of take and rollback, byte by byte, under an interrupt
IsrLen == 2          \* bytes of the state buffer
\* SpecGuards: the guard macros, the bounds helper and the checksum
MaxIndex      == 3   \* indices and lengths are 0..MaxIndex
MaxLoop       == 2   \* small max_iterations values are 0..MaxLoop
MaxDepth      == 3   \* call levels a status is propagated through
DigestLen     == 3   \* short checksum inputs have up to DigestLen bytes
DigestMaxByte == 2   \* with byte values 0..DigestMaxByte
\* SpecWide: sizes over the whole range of a 64-bit size_t
MaxHigh == 1         \* the upper 32 bits of a size are 0..MaxHigh
\* SpecSim: run_simulation
MaxSteps == 12       \* num_steps
MaxDraw  == 10       \* the generator's 32-bit outputs are taken from 0..MaxDraw

(* --------------------------- program constants ------------------------ *)
NULL == 0

SBM_OK               == "SBM_OK"
SBM_ERR_NULL         == "SBM_ERR_NULL"
SBM_ERR_OOB          == "SBM_ERR_OOB"
SBM_ERR_TIMEOUT      == "SBM_ERR_TIMEOUT"
SBM_ERR_INCONSISTENT == "SBM_ERR_INCONSISTENT"
SBM_ERR_UNKNOWN      == "SBM_ERR_UNKNOWN"

sbm_status_t ==
    {SBM_OK, SBM_ERR_NULL, SBM_ERR_OOB, SBM_ERR_TIMEOUT, SBM_ERR_INCONSISTENT,
     SBM_ERR_UNKNOWN}

\* 2^16: a uint32_t is two halves of this many values
Half == 256 * 256

\* 0x53424D53, "SBMS": hi half 0x5342, lo half 0x4D53
SBM_SNAPSHOT_MAGIC == <<21314, 19795>>

Regions     == 1..NumRegions
Bytes       == 0..MaxByte
TamperBytes == 0..TamperMaxByte

(* --------------------------- 32-bit arithmetic ------------------------ *)
Rotl1NoCarry(u) ==
    <<((u[1] * 2) % Half) + (u[2] \div (Half \div 2)), (u[2] * 2) % Half>>

U32Zero == <<0, 0>>

\* (uint32_t) n for a size_t n of the model's range
ToU32(n) == <<(n \div Half) % Half, n % Half>>

\* g_snapshot_sequence++ : the value after the increment, modulo 2^32
U32Inc(u) ==
    IF u[2] = Half - 1 THEN <<(u[1] + 1) % Half, 0>> ELSE <<u[1], u[2] + 1>>

U32Less(u, v) == u[1] < v[1] \/ (u[1] = v[1] /\ u[2] < v[2])

RECURSIVE BitXor(_, _)
BitXor(a, b) ==
    IF a = 0 THEN b
    ELSE IF b = 0 THEN a
    ELSE (2 * BitXor(a \div 2, b \div 2)) + (((a % 2) + (b % 2)) % 2)

\* (sum << 1) | (sum >> 31)
Rotl1(u) ==
    <<((u[1] * 2) % Half) + (u[2] \div (Half \div 2)),
      ((u[2] * 2) % Half) + (u[1] \div (Half \div 2))>>

\* sum ^= bytes[i]
XorByte(u, b) == <<u[1], BitXor(u[2], b)>>

RECURSIVE ChecksumFoldNoRotate(_, _, _)
ChecksumFoldNoRotate(bytes, i, sum) ==
    IF i > Len(bytes) \/ sum = <<>> THEN sum
    ELSE ChecksumFoldNoRotate(bytes, i + 1, <<sum[1], BitXor(sum[2], bytes[i])>>)

\* the loop over the bytes; the test sum = <<>> never holds: it makes the
\* accumulator a value at every step, so long buffers do not nest evaluations
RECURSIVE ChecksumFold(_, _, _)
ChecksumFold(bytes, i, sum) ==
    IF i > Len(bytes) \/ sum = <<>> THEN sum
    ELSE ChecksumFold(bytes, i + 1, XorByte(Rotl1(sum), bytes[i]))

\* sbm_checksum(data, size): isNull stands for data == NULL, bytes for the
\* size bytes at data
sbm_checksum(isNull, bytes) ==
    IF isNull \/ Len(bytes) = 0 THEN U32Zero ELSE ChecksumFold(bytes, 1, U32Zero)

\* the four bytes of a uint32_t as the writer sees them (little-endian host)
Encode32(u) == <<u[2] % 256, u[2] \div 256, u[1] % 256, u[1] \div 256>>

Decode32(b) == <<b[3] + (256 * b[4]), b[1] + (256 * b[2])>>

(* ------------------------------- state -------------------------------- *)
VARIABLES
    mem,                     \* the caller's state buffers: region -> bytes
    heap,                    \* address -> sbm_snapshot_internal_t slot
    g_snapshot_sequence,     \* static uint32_t
    g_snapshot_initialized,  \* static int
    call,                    \* the most recent call and what it returned
    wlog,                    \* writer invocations of the most recent export
    hist,                    \* bookkeeping about earlier successful takes
    copy,                    \* the memcpy a take or rollback is in the middle of
    fn,                      \* the guard layer: the loop context and the last use
    sim                      \* run_simulation: its locals after the last step

vars ==
    <<mem, heap, g_snapshot_sequence, g_snapshot_initialized, call, wlog, hist,
      copy, fn, sim>>

\* heap addresses malloc can return for a snapshot record
Addr == DOMAIN heap

\* A heap slot.  st: "unused" (never handed out), "live" (between malloc and
\* free) or "freed" (a handle to it dangles).  captured is bookkeeping: the
\* bytes copied at take.
Slot(st) ==
    [st |-> st, original_state |-> NULL, snapshot_data |-> <<>>, size |-> 0,
     checksum |-> U32Zero, sequence |-> U32Zero, active |-> 0,
     captured |-> <<>>]

IsLive(a) == heap[a].st = "live"

\* the handles a caller can hold: every address some take has returned
Handles == {a \in Addr : heap[a].st # "unused"}

LiveHandles == {a \in Addr : IsLive(a)}

BytesOfLen(n, B) == [1..n -> B]

\* What a read through a dangling handle can see: the slot's memory belongs
\* to the allocator, so every field is indeterminate.
IndeterminateRecords ==
    {[st |-> "freed", original_state |-> r, snapshot_data |-> d, size |-> Len(d),
      checksum |-> IF ok THEN sbm_checksum(FALSE, d)
                   ELSE U32Inc(sbm_checksum(FALSE, d)),
      sequence |-> U32Zero, active |-> act, captured |-> d] :
        r \in Regions, act \in {0, 1},
        d \in UNION {BytesOfLen(n, Bytes) : n \in 1..RegionLen},
        ok \in BOOLEAN}

\* (sbm_snapshot_internal_t *)handle, then reads of its fields
Deref(h) == IF IsLive(h) THEN {heap[h]} ELSE IndeterminateRecords

\* op and args: the call; handle: the handle passed, or the one take
\* returned; ret: the status returned; sink: the statuses handed to
\* sbm_failure_handler during the call; dangling: the handle's record had
\* been freed when the call read it; wrote: the call changed a byte of the
\* caller's buffers; altered: the handle's record was allocated and its
\* payload differed from the bytes copied at take when the call read it
Call(op, args, h, ret, sink) ==
    [op |-> op, args |-> args, handle |-> h, ret |-> ret, sink |-> sink,
     dangling |-> (h # NULL /\ op \in {"commit", "rollback", "export"}
                   /\ ~IsLive(h)),
     wrote |-> (mem' # mem),
     altered |-> (h # NULL /\ op \in {"commit", "rollback", "export"}
                  /\ IsLive(h) /\ heap[h].snapshot_data # heap[h].captured)]

NoCall == [op |-> "none", args |-> <<>>, handle |-> NULL, ret |-> SBM_OK,
           sink |-> <<>>, dangling |-> FALSE, wrote |-> FALSE,
           altered |-> FALSE]

\* any, last: whether a take has succeeded, and the sequence number the most
\* recent one assigned; reinit: sbm_snapshot_init was called since then;
\* ended: the handles commit or rollback has been called with; preinit: the
\* addresses whose snapshot was allocated at the most recent
\* sbm_snapshot_init and has not been replaced by a later take
NoHist ==
    [any |-> FALSE, last |-> U32Zero, reinit |-> FALSE, ended |-> {},
     preinit |-> {}]

Ended(h) == [hist EXCEPT !.ended = @ \cup {h}]

\* no memcpy is in progress
NoCopy == [pc |-> "idle"]

\* the guard layer has not been used
NoFn == [op |-> "none"]

\* run_simulation has not been started
NoSim == [step |-> 0]

InitWith(nAddr, len, B) ==
    /\ mem \in [Regions -> BytesOfLen(len, B)]
    /\ heap = [a \in 1..nAddr |-> Slot("unused")]
    /\ g_snapshot_sequence = U32Zero
    /\ g_snapshot_initialized = 0
    /\ call = NoCall
    /\ wlog = <<>>
    /\ hist = NoHist
    /\ copy = NoCopy
    /\ fn = NoFn
    /\ sim = NoSim

Init == InitWith(MaxAddr, RegionLen, Bytes)

TamperInit == InitWith(1, TamperLen, TamperBytes)

(* ------------------------------ guards -------------------------------- *)
\* GUARD_PTR(p): the statuses handed to sbm_failure_handler, in order; the
\* enclosing function returns SBM_ERR_NULL exactly when this is not empty
GuardPtr(p) == IF p = NULL THEN <<SBM_ERR_NULL>> ELSE <<>>

(* --------------------------- sbm_snapshot_init ------------------------ *)
SnapshotInit ==
    /\ g_snapshot_sequence' = U32Zero
    /\ g_snapshot_initialized' = 1
    /\ wlog' = <<>>
    /\ hist' = [hist EXCEPT !.reinit = TRUE, !.preinit = LiveHandles]
    /\ UNCHANGED <<mem, heap, copy, fn, sim>>
    /\ call' = Call("init", <<>>, NULL, SBM_OK, <<>>)

(* --------------------------- sbm_snapshot_take ------------------------ *)
TakeArgCheckSizeFirst(state, size, hp) ==
    IF size = 0 THEN [sink |-> <<>>, ret |-> SBM_ERR_UNKNOWN]
    ELSE IF GuardPtr(state) # <<>> THEN [sink |-> GuardPtr(state), ret |-> SBM_ERR_NULL]
    ELSE IF GuardPtr(hp) # <<>> THEN [sink |-> GuardPtr(hp), ret |-> SBM_ERR_NULL]
    ELSE [sink |-> <<>>, ret |-> SBM_OK]

\* the argument checks of take, in the order the code makes them: the sink
\* entries and the status returned before anything is allocated (SBM_OK: go on)
TakeArgCheck(state, size, hp) ==
    IF GuardPtr(state) # <<>> THEN [sink |-> GuardPtr(state), ret |-> SBM_ERR_NULL]
    ELSE IF GuardPtr(hp) # <<>> THEN [sink |-> GuardPtr(hp), ret |-> SBM_ERR_NULL]
    ELSE IF size = 0 THEN [sink |-> <<>>, ret |-> SBM_ERR_UNKNOWN]
    ELSE [sink |-> <<>>, ret |-> SBM_OK]

\* memcpy(snapshot->snapshot_data, state, size)
CopyIn(m, state, size) == [i \in 1..size |-> m[state][i]]

NextSequenceStuck(g) == g

\* snapshot->sequence = g_snapshot_sequence++ : the counter afterwards
NextSequence(g) == U32Inc(g)

NewSnapshotNoSequence(m, state, size, g) ==
    [st |-> "live", original_state |-> state,
     snapshot_data |-> CopyIn(m, state, size), size |-> size,
     checksum |-> sbm_checksum(FALSE, CopyIn(m, state, size)),
     sequence |-> U32Zero, active |-> 1,
     captured |-> CopyIn(m, state, size)]

\* the record take fills in, with the sequence counter g as the call found it
NewSnapshot(m, state, size, g) ==
    [st |-> "live", original_state |-> state,
     snapshot_data |-> CopyIn(m, state, size), size |-> size,
     checksum |-> sbm_checksum(FALSE, CopyIn(m, state, size)),
     sequence |-> g, active |-> 1,
     captured |-> CopyIn(m, state, size)]

\* addresses malloc may return for a record: any that is not allocated
FreeAddrs == {a \in Addr : ~IsLive(a)}

TakeFailureConsumesSequence(state, size, hp) ==
    LET chk  == TakeArgCheck(state, size, hp)
        args == <<state, size, hp>>
        g0   == IF g_snapshot_initialized = 0 THEN U32Zero ELSE g_snapshot_sequence
    IN  /\ wlog' = <<>>
        /\ UNCHANGED <<copy, fn, sim>>
        /\ IF chk.ret # SBM_OK
           THEN /\ UNCHANGED <<mem, heap, g_snapshot_sequence,
                               g_snapshot_initialized, hist>>
                /\ call' = Call("take", args, NULL, chk.ret, chk.sink)
           ELSE \/ /\ g_snapshot_sequence' = NextSequence(g0)
                   /\ g_snapshot_initialized' = 1
                   /\ UNCHANGED <<mem, heap, hist>>
                   /\ call' = Call("take", args, NULL, SBM_ERR_UNKNOWN, <<>>)
                \/ \E a \in FreeAddrs :
                       /\ U32Less(g0, ToU32(MaxSeq))
                       /\ heap' = [heap EXCEPT
                                     ![a] = NewSnapshot(mem, state, size, g0)]
                       /\ g_snapshot_sequence' = NextSequence(g0)
                       /\ g_snapshot_initialized' = 1
                       /\ hist' = [hist EXCEPT !.any = TRUE, !.last = g0,
                                                !.reinit = FALSE,
                                                !.preinit = @ \ {a}]
                       /\ UNCHANGED mem
                       /\ call' = Call("take", args, a, SBM_OK, <<>>)

SnapshotTake(state, size, hp) ==
    LET chk  == TakeArgCheck(state, size, hp)
        args == <<state, size, hp>>
        \* lazy initialisation, lines 80-82
        g0   == IF g_snapshot_initialized = 0 THEN U32Zero ELSE g_snapshot_sequence
    IN  /\ wlog' = <<>>
        /\ UNCHANGED <<copy, fn, sim>>
        /\ IF chk.ret # SBM_OK
           THEN /\ UNCHANGED <<mem, heap, g_snapshot_sequence,
                               g_snapshot_initialized, hist>>
                /\ call' = Call("take", args, NULL, chk.ret, chk.sink)
           ELSE \/ \* malloc of the record or of the data buffer returns NULL
                   /\ g_snapshot_sequence' = g0
                   /\ g_snapshot_initialized' = 1
                   /\ UNCHANGED <<mem, heap, hist>>
                   /\ call' = Call("take", args, NULL, SBM_ERR_UNKNOWN, <<>>)
                \/ \E a \in FreeAddrs :
                       /\ U32Less(g0, ToU32(MaxSeq))
                       /\ heap' = [heap EXCEPT
                                     ![a] = NewSnapshot(mem, state, size, g0)]
                       /\ g_snapshot_sequence' = NextSequence(g0)
                       /\ g_snapshot_initialized' = 1
                       /\ hist' = [hist EXCEPT !.any = TRUE, !.last = g0,
                                                !.reinit = FALSE,
                                                !.preinit = @ \ {a}]
                       /\ UNCHANGED mem
                       /\ call' = Call("take", args, a, SBM_OK, <<>>)

(* -------------------------- commit and rollback ----------------------- *)
FreeEverySnapshot(hp, h) == [a \in DOMAIN hp |-> Slot("freed")]

\* snapshot->active = 0; free(snapshot->snapshot_data); free(snapshot)
FreeSnapshot(hp, h) == [hp EXCEPT ![h] = Slot("freed")]

RestoreNothing(m, snapshot) == m

\* memcpy(snapshot->original_state, snapshot->snapshot_data, snapshot->size)
Restore(m, snapshot) ==
    [m EXCEPT ![snapshot.original_state] =
        [i \in DOMAIN @ |->
            IF i <= snapshot.size THEN snapshot.snapshot_data[i] ELSE @[i]]]

CommitRestores(m, snapshot) == Restore(m, snapshot)

\* what commit leaves in the caller's buffers: it never touches them
CommitOrigin(m, snapshot) == m

ChecksumNotChecked(snapshot) == TRUE

\* current_checksum == snapshot->checksum
ChecksumValid(snapshot) ==
    sbm_checksum(FALSE, snapshot.snapshot_data) = snapshot.checksum

CommitChecksChecksum(h) ==
    /\ wlog' = <<>>
    /\ UNCHANGED <<g_snapshot_sequence, g_snapshot_initialized, copy, fn, sim>>
    /\ IF GuardPtr(h) # <<>>
       THEN /\ UNCHANGED <<mem, heap, hist>>
            /\ call' = Call("commit", <<>>, h, SBM_ERR_NULL, GuardPtr(h))
       ELSE \E snapshot \in Deref(h) :
              /\ hist' = Ended(h)
              /\ IF snapshot.active = 0
                 THEN /\ UNCHANGED <<mem, heap>>
                      /\ call' = Call("commit", <<>>, h, SBM_ERR_INCONSISTENT,
                                      <<>>)
                 ELSE /\ heap' = FreeSnapshot(heap, h)
                      /\ mem' = CommitOrigin(mem, snapshot)
                      /\ call' = Call("commit", <<>>, h,
                                      IF ChecksumValid(snapshot) THEN SBM_OK
                                      ELSE SBM_ERR_INCONSISTENT, <<>>)

SnapshotCommit(h) ==
    /\ wlog' = <<>>
    /\ UNCHANGED <<g_snapshot_sequence, g_snapshot_initialized, copy, fn, sim>>
    /\ IF GuardPtr(h) # <<>>
       THEN /\ UNCHANGED <<mem, heap, hist>>
            /\ call' = Call("commit", <<>>, h, SBM_ERR_NULL, GuardPtr(h))
       ELSE \E snapshot \in Deref(h) :
              /\ hist' = Ended(h)
              /\ IF snapshot.active = 0
                 THEN /\ UNCHANGED <<mem, heap>>
                      /\ call' = Call("commit", <<>>, h, SBM_ERR_INCONSISTENT,
                                      <<>>)
                 ELSE /\ heap' = FreeSnapshot(heap, h)
                      /\ mem' = CommitOrigin(mem, snapshot)
                      /\ call' = Call("commit", <<>>, h, SBM_OK, <<>>)

SnapshotRollback(h) ==
    /\ wlog' = <<>>
    /\ UNCHANGED <<g_snapshot_sequence, g_snapshot_initialized, copy, fn, sim>>
    /\ IF GuardPtr(h) # <<>>
       THEN /\ UNCHANGED <<mem, heap, hist>>
            /\ call' = Call("rollback", <<>>, h, SBM_ERR_NULL, GuardPtr(h))
       ELSE \E snapshot \in Deref(h) :
              /\ hist' = Ended(h)
              /\ IF snapshot.active = 0
                 THEN /\ UNCHANGED <<mem, heap>>
                      /\ call' = Call("rollback", <<>>, h, SBM_ERR_INCONSISTENT,
                                      <<>>)
                 ELSE IF ~ChecksumValid(snapshot)
                 THEN /\ heap' = FreeSnapshot(heap, h)
                      /\ UNCHANGED mem
                      /\ call' = Call("rollback", <<>>, h, SBM_ERR_INCONSISTENT,
                                      <<>>)
                 ELSE /\ mem' = Restore(mem, snapshot)
                      /\ heap' = FreeSnapshot(heap, h)
                      /\ call' = Call("rollback", <<>>, h, SBM_OK, <<>>)

(* ------------------------------- export ------------------------------- *)
\* A writer is described by the one invocation (at, 0 for none) on which it
\* does not write everything, and by what it returns there.
NoWriter == [at |-> 0, kind |-> "null"]

FullWriter == [at |-> 0, kind |-> "full"]

Writers == {FullWriter} \cup [at : 1..5, kind : {"short", "error"}]

\* the writer's return value on its k-th invocation, asked for len bytes
WriterRet(w, k, len) ==
    IF w.at # k THEN len ELSE IF w.kind = "error" THEN 0 - 1 ELSE len - 1

\* writer(...) < 0
WriterFailed(r) == r < 0

ExportFieldsSwapped(snapshot) ==
    <<Encode32(SBM_SNAPSHOT_MAGIC), Encode32(snapshot.checksum),
      Encode32(snapshot.sequence), Encode32(ToU32(snapshot.size)),
      snapshot.snapshot_data>>

\* magic | sequence | checksum | size | data : the buffers handed to the writer
ExportFields(snapshot) ==
    <<Encode32(SBM_SNAPSHOT_MAGIC), Encode32(snapshot.sequence),
      Encode32(snapshot.checksum), Encode32(ToU32(snapshot.size)),
      snapshot.snapshot_data>>

RECURSIVE WriterRunGoesOn(_, _, _)
WriterRunGoesOn(fields, w, k) ==
    IF k > Len(fields) THEN <<>>
    ELSE <<[data |-> fields[k], ret |-> WriterRet(w, k, Len(fields[k]))]>>
             \o WriterRunGoesOn(fields, w, k + 1)

\* the invocations export makes: it stops after the first one that failed
RECURSIVE WriterRun(_, _, _)
WriterRun(fields, w, k) ==
    IF k > Len(fields) THEN <<>>
    ELSE LET r == WriterRet(w, k, Len(fields[k]))
             e == [data |-> fields[k], ret |-> r]
         IN  IF WriterFailed(r) THEN <<e>> ELSE <<e>> \o WriterRun(fields, w, k + 1)

ExportFrees(hp, h) == FreeSnapshot(hp, h)

ExportDeactivates(hp, h) == [hp EXCEPT ![h].active = 0]

\* what export does to the registry: nothing
ExportHeap(hp, h) == hp

ExportDiscardsOnMismatch(h, w) ==
    LET args == <<IF w = NoWriter THEN NULL ELSE 1>>
    IN  /\ UNCHANGED <<mem, g_snapshot_sequence, g_snapshot_initialized, hist,
                       copy, fn, sim>>
        /\ IF GuardPtr(h) # <<>> \/ w = NoWriter
           THEN /\ call' = Call("export", args, h, SBM_ERR_NULL, <<SBM_ERR_NULL>>)
                /\ wlog' = <<>>
                /\ UNCHANGED heap
           ELSE \E snapshot \in Deref(h) :
                  IF snapshot.active = 0
                  THEN /\ call' = Call("export", args, h, SBM_ERR_INCONSISTENT,
                                       <<>>)
                       /\ wlog' = <<>>
                       /\ UNCHANGED heap
                  ELSE IF ~ChecksumValid(snapshot)
                  THEN /\ call' = Call("export", args, h, SBM_ERR_INCONSISTENT,
                                       <<>>)
                       /\ wlog' = <<>>
                       /\ heap' = FreeSnapshot(heap, h)
                  ELSE LET run == WriterRun(ExportFields(snapshot), w, 1)
                       IN  /\ wlog' = run
                           /\ heap' = ExportHeap(heap, h)
                           /\ call' = Call("export", args, h,
                                           IF WriterFailed(run[Len(run)].ret)
                                           THEN SBM_ERR_UNKNOWN ELSE SBM_OK, <<>>)

SnapshotExport(h, w) ==
    LET args == <<IF w = NoWriter THEN NULL ELSE 1>>
    IN  /\ UNCHANGED <<mem, g_snapshot_sequence, g_snapshot_initialized, hist,
                       copy, fn, sim>>
        /\ IF GuardPtr(h) # <<>> \/ w = NoWriter
           THEN /\ call' = Call("export", args, h, SBM_ERR_NULL, <<SBM_ERR_NULL>>)
                /\ wlog' = <<>>
                /\ UNCHANGED heap
           ELSE \E snapshot \in Deref(h) :
                  IF snapshot.active = 0 \/ ~ChecksumValid(snapshot)
                  THEN /\ call' = Call("export", args, h, SBM_ERR_INCONSISTENT,
                                       <<>>)
                       /\ wlog' = <<>>
                       /\ UNCHANGED heap
                  ELSE LET run == WriterRun(ExportFields(snapshot), w, 1)
                       IN  /\ wlog' = run
                           /\ heap' = ExportHeap(heap, h)
                           /\ call' = Call("export", args, h,
                                           IF WriterFailed(run[Len(run)].ret)
                                           THEN SBM_ERR_UNKNOWN ELSE SBM_OK, <<>>)

(* ------------------------- the caller's own steps --------------------- *)
\* the caller writes one byte of a state buffer
Mutate(r, i, b) ==
    /\ mem[r][i] # b
    /\ mem' = [mem EXCEPT ![r][i] = b]
    /\ wlog' = <<>>
    /\ UNCHANGED <<heap, g_snapshot_sequence, g_snapshot_initialized, hist,
                   copy, fn, sim>>
    /\ call' = Call("mutate", <<>>, NULL, SBM_OK, <<>>)

\* the test-only back door: one byte of a stored payload is overwritten
Corrupt(a, i, b) ==
    /\ IsLive(a)
    /\ i <= heap[a].size
    /\ heap[a].snapshot_data[i] # b
    /\ heap' = [heap EXCEPT ![a].snapshot_data[i] = b]
    /\ wlog' = <<>>
    /\ UNCHANGED <<mem, g_snapshot_sequence, g_snapshot_initialized, hist,
                   copy, fn, sim>>
    /\ call' = Call("corrupt", <<>>, NULL, SBM_OK, <<>>)

(* --------------------- Spec: every call, every argument --------------- *)
CallInit == SnapshotInit

CallTake ==
    \E state \in {NULL} \cup Regions, size \in 0..RegionLen, hp \in {NULL, 1} :
        SnapshotTake(state, size, hp)

CallCommit == \E h \in {NULL} \cup Handles : SnapshotCommit(h)

CallRollback == \E h \in {NULL} \cup Handles : SnapshotRollback(h)

CallExport ==
    \E h \in {NULL} \cup Handles, w \in {NoWriter} \cup Writers :
        SnapshotExport(h, w)

CallerWrites == \E r \in Regions, i \in 1..RegionLen, b \in Bytes : Mutate(r, i, b)

Next ==
    \/ CallInit
    \/ CallTake
    \/ CallCommit
    \/ CallRollback
    \/ CallExport
    \/ CallerWrites

Spec == Init /\ [][Next]_vars

(* ------------- SpecTamper: well-formed calls and the back door -------- *)
TamperTake ==
    \E state \in Regions, size \in 1..TamperLen : SnapshotTake(state, size, 1)

TamperCommit == \E h \in LiveHandles : SnapshotCommit(h)

TamperRollback == \E h \in LiveHandles : SnapshotRollback(h)

TamperExport == \E h \in LiveHandles : SnapshotExport(h, FullWriter)

TamperWrites ==
    \E r \in Regions, i \in 1..TamperLen, b \in TamperBytes : Mutate(r, i, b)

PayloadCorrupted ==
    \E a \in Addr, i \in 1..TamperLen, b \in TamperBytes : Corrupt(a, i, b)

TamperNext ==
    \/ TamperTake
    \/ TamperCommit
    \/ TamperRollback
    \/ TamperExport
    \/ TamperWrites
    \/ PayloadCorrupted

SpecTamper == TamperInit /\ [][TamperNext]_vars

(* ------- SpecPair: several state buffers, snapshots ended in any order --- *)
PairInit ==
    /\ mem \in [1..PairRegions -> BytesOfLen(RegionLen, Bytes)]
    /\ heap = [a \in 1..MaxAddr |-> Slot("unused")]
    /\ g_snapshot_sequence = U32Zero
    /\ g_snapshot_initialized = 0
    /\ call = NoCall
    /\ wlog = <<>>
    /\ hist = NoHist
    /\ copy = NoCopy
    /\ fn = NoFn
    /\ sim = NoSim

PairTake ==
    \E state \in 1..PairRegions, size \in 1..RegionLen : SnapshotTake(state, size, 1)

PairCommit == \E h \in LiveHandles : SnapshotCommit(h)

PairRollback == \E h \in LiveHandles : SnapshotRollback(h)

PairWrites ==
    \E r \in 1..PairRegions, i \in 1..RegionLen, b \in Bytes : Mutate(r, i, b)

PairNext ==
    \/ PairTake
    \/ PairCommit
    \/ PairRollback
    \/ PairWrites

SpecPair == PairInit /\ [][PairNext]_vars

(* ---- SpecIsr: memcpy byte by byte, an interrupt handler writing origin --- *)
\* The code brackets neither memcpy with anything that keeps an interrupt
\* out (lines 97-104, 231-235), so a handler that writes origin can run
\* between any two bytes of the copy.
IsrInit == InitWith(1, IsrLen, Bytes)

\* take up to its memcpy: arguments checked, lazy initialisation, the record
\* and its buffer allocated (lines 72-95)
IsrTakeBegin ==
    \E state \in Regions, a \in FreeAddrs :
        LET g0 == IF g_snapshot_initialized = 0 THEN U32Zero
                  ELSE g_snapshot_sequence
        IN  /\ copy.pc = "idle"
            /\ TakeArgCheck(state, IsrLen, 1).ret = SBM_OK
            /\ U32Less(g0, ToU32(MaxSeq))
            /\ g_snapshot_sequence' = g0
            /\ g_snapshot_initialized' = 1
            /\ heap' = [heap EXCEPT ![a] = Slot("live")]
            /\ copy' = [pc |-> "take", handle |-> a, state |-> state,
                        size |-> IsrLen, i |-> 1, buf |-> <<>>,
                        before |-> mem[state], seen |-> {mem[state]},
                        written |-> FALSE]
            /\ UNCHANGED <<mem, call, wlog, hist, fn, sim>>

\* one byte of memcpy(snapshot->snapshot_data, state, size)
IsrCopyByte ==
    /\ copy.pc = "take"
    /\ copy.i <= copy.size
    /\ copy' = [copy EXCEPT !.buf = Append(@, mem[copy.state][copy.i]),
                            !.i = @ + 1]
    /\ UNCHANGED <<mem, heap, g_snapshot_sequence, g_snapshot_initialized, call,
                   wlog, hist, fn, sim>>

\* take after its memcpy: the metadata and the handle (lines 107-114)
IsrTakeEnd ==
    /\ copy.pc = "take"
    /\ copy.i > copy.size
    /\ heap' = [heap EXCEPT ![copy.handle] =
                   NewSnapshot([mem EXCEPT ![copy.state] = copy.buf], copy.state,
                               copy.size, g_snapshot_sequence)]
    /\ g_snapshot_sequence' = NextSequence(g_snapshot_sequence)
    /\ hist' = [hist EXCEPT !.any = TRUE, !.last = g_snapshot_sequence,
                            !.reinit = FALSE, !.preinit = @ \ {copy.handle}]
    /\ copy' = [copy EXCEPT !.pc = "idle"]
    /\ wlog' = <<>>
    /\ UNCHANGED <<mem, g_snapshot_initialized, fn, sim>>
    /\ call' = Call("take", <<copy.state, copy.size, 1>>, copy.handle, SBM_OK,
                    <<>>)

\* rollback up to its memcpy: the active and checksum checks (lines 214-229)
IsrRollbackBegin ==
    \E h \in LiveHandles :
        /\ copy.pc = "idle"
        /\ GuardPtr(h) = <<>>
        /\ heap[h].active # 0
        /\ ChecksumValid(heap[h])
        /\ copy' = [pc |-> "restore", handle |-> h,
                    state |-> heap[h].original_state, size |-> heap[h].size,
                    i |-> 1, buf |-> heap[h].snapshot_data,
                    before |-> mem[heap[h].original_state],
                    seen |-> {mem[heap[h].original_state]}, written |-> FALSE]
        /\ UNCHANGED <<mem, heap, g_snapshot_sequence, g_snapshot_initialized,
                       call, wlog, hist, fn, sim>>

\* one byte of memcpy(snapshot->original_state, snapshot->snapshot_data, size)
IsrRestoreByte ==
    /\ copy.pc = "restore"
    /\ copy.i <= copy.size
    /\ mem' = [mem EXCEPT ![copy.state][copy.i] = copy.buf[copy.i]]
    /\ copy' = [copy EXCEPT !.i = @ + 1, !.seen = @ \cup {mem'[copy.state]}]
    /\ UNCHANGED <<heap, g_snapshot_sequence, g_snapshot_initialized, call, wlog,
                   hist, fn, sim>>

\* rollback after its memcpy: the record is released (lines 238-242)
IsrRollbackEnd ==
    /\ copy.pc = "restore"
    /\ copy.i > copy.size
    /\ heap' = FreeSnapshot(heap, copy.handle)
    /\ hist' = Ended(copy.handle)
    /\ copy' = [copy EXCEPT !.pc = "idle"]
    /\ wlog' = <<>>
    /\ UNCHANGED <<mem, g_snapshot_sequence, g_snapshot_initialized, fn, sim>>
    /\ call' = Call("rollback", <<>>, copy.handle, SBM_OK, <<>>)

\* the interrupt handler writes one byte of a state buffer, at any moment
IsrWrites ==
    \E r \in Regions, i \in 1..IsrLen, b \in Bytes :
        /\ mem[r][i] # b
        /\ mem' = [mem EXCEPT ![r][i] = b]
        /\ copy' = IF copy.pc # "idle" /\ copy.state = r
                   THEN [copy EXCEPT !.seen = @ \cup {mem'[r]},
                                     !.written = TRUE]
                   ELSE copy
        /\ UNCHANGED <<heap, g_snapshot_sequence, g_snapshot_initialized, call,
                       wlog, hist, fn, sim>>

IsrNext ==
    \/ IsrTakeBegin
    \/ IsrCopyByte
    \/ IsrTakeEnd
    \/ IsrRollbackBegin
    \/ IsrRestoreByte
    \/ IsrRollbackEnd
    \/ IsrWrites

SpecIsr == IsrInit /\ [][IsrNext]_vars

(* ------------------------------ guard layer --------------------------- *)
\* What a guard macro does inside the function that uses it: the statuses it
\* hands to sbm_failure_handler, whether it makes the function return, and
\* with which status.
Pass == [sink |-> <<>>, returned |-> FALSE, ret |-> SBM_OK]

GUARD_PTR(p) ==
    IF p = NULL
    THEN [sink |-> <<SBM_ERR_NULL>>, returned |-> TRUE, ret |-> SBM_ERR_NULL]
    ELSE Pass

GuardIndexWarnOnly(idx, len) ==
    IF idx >= len
    THEN [sink |-> <<SBM_ERR_OOB>>, returned |-> FALSE, ret |-> SBM_OK]
    ELSE Pass

GUARD_INDEX(idx, len) ==
    IF idx >= len
    THEN [sink |-> <<SBM_ERR_OOB>>, returned |-> TRUE, ret |-> SBM_ERR_OOB]
    ELSE Pass

\* (ctx).iteration++
LoopIncrement(ctx) == [ctx EXCEPT !.iteration = U32Inc(@)]

\* the rest of CHECK_LOOP_LIMIT, on the context already incremented
CHECK_LOOP_LIMIT(ctx) ==
    IF U32Less(ctx.max_iterations, ctx.iteration)
    THEN [sink |-> <<SBM_ERR_TIMEOUT>>, returned |-> TRUE,
          ret |-> SBM_ERR_TIMEOUT]
    ELSE Pass

PropagateReports(s) ==
    IF s # SBM_OK
    THEN [sink |-> <<s>>, returned |-> TRUE, ret |-> s]
    ELSE Pass

SBM_PROPAGATE_STATUS(s) ==
    IF s # SBM_OK
    THEN [sink |-> <<>>, returned |-> TRUE, ret |-> s]
    ELSE Pass

SBM_ASSERT(cond, status) ==
    IF ~cond
    THEN [sink |-> <<status>>, returned |-> TRUE, ret |-> status]
    ELSE Pass

\* a function whose body is one guard, one more statement and return SBM_OK
\* (test_null_pointer, test_out_of_bounds): what it returns, what the sink
\* has seen, and whether the statement after the guard ran
Enclosing(m) ==
    [ret |-> IF m.returned THEN m.ret ELSE SBM_OK, sink |-> m.sink,
     after |-> ~m.returned]

\* a function that calls another, propagates its status, then runs one more
\* statement and returns SBM_OK (test_error_propagation); r is what the
\* callee did
Caller(r) ==
    LET m == SBM_PROPAGATE_STATUS(r.ret)
    IN  [ret |-> IF m.returned THEN m.ret ELSE SBM_OK, sink |-> r.sink \o m.sink,
         after |-> ~m.returned]

\* depth callers stacked on the function that did r
RECURSIVE Chain(_, _)
Chain(depth, r) == IF depth = 0 THEN r ELSE Caller(Chain(depth - 1, r))

CheckBoundsInclusive(idx, length) == IF idx > length THEN SBM_ERR_OOB ELSE SBM_OK

sbm_check_bounds(idx, length) == IF idx >= length THEN SBM_ERR_OOB ELSE SBM_OK

UINT32_MAX == <<Half - 1, Half - 1>>

\* max_iterations values a loop context is set up with
LoopLimits ==
    {ToU32(n) : n \in 0..MaxLoop} \cup {<<Half - 1, Half - 2>>, UINT32_MAX}

RECURSIVE Zeros(_)
Zeros(n) == IF n = 0 THEN <<>> ELSE <<0>> \o Zeros(n - 1)

\* buffers handed to sbm_checksum: every short one, and long ones in which a
\* byte is rotated up to and past bit 31
DigestInputs ==
    UNION {BytesOfLen(n, 0..DigestMaxByte) : n \in 0..DigestLen}
        \cup {<<b>> \o Zeros(k) : b \in {1, 255}, k \in {24, 31, 32}}

(* ---------------- SpecGuards: uses of the guard layer ------------------ *)
\* fn.ctx is a loop context some function keeps; fn.calls counts the
\* CHECK_LOOP_LIMIT uses on it; the other fields describe the last use of
\* the guard layer: what was used, on what, and what came of it
GuardsInit ==
    /\ mem = [r \in Regions |-> Zeros(RegionLen)]
    /\ heap = [a \in 1..1 |-> Slot("unused")]
    /\ g_snapshot_sequence = U32Zero
    /\ g_snapshot_initialized = 0
    /\ call = NoCall
    /\ wlog = <<>>
    /\ hist = NoHist
    /\ copy = NoCopy
    /\ sim = NoSim
    /\ \E n \in LoopLimits :
          fn = [op |-> "none", args |-> <<>>, ret |-> SBM_OK, sink |-> <<>>,
                after |-> FALSE,
                ctx |-> [iteration |-> U32Zero, max_iterations |-> n],
                calls |-> U32Zero]

Used(op, args, r) ==
    /\ fn' = [fn EXCEPT !.op = op, !.args = args, !.ret = r.ret,
                         !.sink = r.sink, !.after = r.after]
    /\ UNCHANGED <<mem, heap, g_snapshot_sequence, g_snapshot_initialized, call,
                   wlog, hist, copy, sim>>

UseGuardPtr ==
    \E p \in {NULL, 1} : Used("GUARD_PTR", <<p>>, Enclosing(GUARD_PTR(p)))

UseGuardIndex ==
    \E idx \in 0..MaxIndex, len \in 0..MaxIndex :
        Used("GUARD_INDEX", <<idx, len>>, Enclosing(GUARD_INDEX(idx, len)))

UseAssert ==
    \E cond \in BOOLEAN, status \in sbm_status_t :
        Used("SBM_ASSERT", <<cond, status>>, Enclosing(SBM_ASSERT(cond, status)))

\* the contexts from which single uses are explored: the first MaxLoop
\* iterations and the last two before the limit
LoopExplored(ctx) ==
    \/ U32Less(ctx.iteration, ToU32(MaxLoop + 1))
    \/ /\ ctx.iteration[1] = ctx.max_iterations[1]
       /\ ctx.iteration[2] + 2 >= ctx.max_iterations[2]

\* one more CHECK_LOOP_LIMIT on a context that has not gone over its limit
UseCheckLoopLimit ==
    LET ctx == LoopIncrement(fn.ctx)
        r   == Enclosing(CHECK_LOOP_LIMIT(ctx))
    IN  /\ ~U32Less(fn.ctx.max_iterations, fn.ctx.iteration)
        /\ LoopExplored(fn.ctx)
        /\ fn' = [op |-> "CHECK_LOOP_LIMIT", args |-> <<>>, ret |-> r.ret,
                  sink |-> r.sink, after |-> r.after, ctx |-> ctx,
                  calls |-> U32Inc(fn.calls)]
        /\ UNCHANGED <<mem, heap, g_snapshot_sequence, g_snapshot_initialized,
                       call, wlog, hist, copy, sim>>

\* one more CHECK_LOOP_LIMIT on a context that has gone over its limit: the
\* function that returned SBM_ERR_TIMEOUT is entered again with the same
\* context.  Explored for the first uses after the limit and at the top of
\* the counter's range.
UseCheckLoopLimitExhausted ==
    LET ctx == LoopIncrement(fn.ctx)
        r   == Enclosing(CHECK_LOOP_LIMIT(ctx))
    IN  /\ U32Less(fn.ctx.max_iterations, fn.ctx.iteration)
        /\ \/ U32Less(fn.ctx.iteration, ToU32(MaxLoop + 3))
           \/ fn.ctx.iteration = UINT32_MAX
        /\ fn' = [op |-> "CHECK_LOOP_LIMIT", args |-> <<>>, ret |-> r.ret,
                  sink |-> r.sink, after |-> r.after, ctx |-> ctx,
                  calls |-> U32Inc(fn.calls)]
        /\ UNCHANGED <<mem, heap, g_snapshot_sequence, g_snapshot_initialized,
                       call, wlog, hist, copy, sim>>

\* a loop that has far to go runs on until two iterations are left: each of
\* these uses increments iteration to a value that is not above
\* max_iterations, so each passes
UseCheckLoopLimitMany ==
    LET target == <<fn.ctx.max_iterations[1], fn.ctx.max_iterations[2] - 2>>
    IN  /\ fn.ctx.iteration = U32Zero
        /\ fn.ctx.max_iterations[1] > 0
        /\ fn.ctx.max_iterations[2] >= 2
        /\ fn' = [op |-> "CHECK_LOOP_LIMIT", args |-> <<>>, ret |-> SBM_OK,
                  sink |-> <<>>, after |-> TRUE,
                  ctx |-> [fn.ctx EXCEPT !.iteration = target],
                  calls |-> target]
        /\ UNCHANGED <<mem, heap, g_snapshot_sequence, g_snapshot_initialized,
                       call, wlog, hist, copy, sim>>

\* a status comes up through depth callers from a function whose guard
\* did or did not fire
UsePropagate ==
    \E depth \in 1..MaxDepth, cond \in BOOLEAN, status \in sbm_status_t :
        Used("SBM_PROPAGATE_STATUS", <<depth, cond, status>>,
             Chain(depth, Enclosing(SBM_ASSERT(cond, status))))

UseCheckBounds ==
    \E idx \in 0..MaxIndex, length \in 0..MaxIndex :
        Used("sbm_check_bounds", <<idx, length>>,
             [ret |-> sbm_check_bounds(idx, length), sink |-> <<>>,
              after |-> TRUE])

UseChecksum ==
    \E isNull \in BOOLEAN, bytes \in DigestInputs :
        Used("sbm_checksum", <<isNull, bytes>>,
             [ret |-> sbm_checksum(isNull, bytes), sink |-> <<>>,
              after |-> TRUE])

GuardsNext ==
    \/ UseGuardPtr
    \/ UseGuardIndex
    \/ UseAssert
    \/ UseCheckLoopLimit
    \/ UseCheckLoopLimitExhausted
    \/ UseCheckLoopLimitMany
    \/ UsePropagate
    \/ UseCheckBounds
    \/ UseChecksum

SpecGuards == GuardsInit /\ [][GuardsNext]_vars

(* ------ SpecWide: take, export and commit with sizes of 64-bit width ------ *)
\* A size_t is [hi, lo]: its upper 32 bits as a number and its lower 32 bits
\* as a uint32_t.  A buffer that long is described by its length and the one
\* value all of its bytes have; the caller's buffers here hold zero bytes
\* only, whose checksum is 0 whatever the length (rotating 0 and XORing in 0
\* leaves 0).
SizeT(hi, lo) == [hi |-> hi, lo |-> lo]

WideSizes ==
    {SizeT(hi, lo) : hi \in 0..MaxHigh,
                     lo \in {U32Zero, ToU32(1), ToU32(2), UINT32_MAX}}

\* (uint32_t)snapshot->size
CastU32(size) == size.lo

Buffer(size) == [len |-> size, fill |-> 0]

WideInit ==
    /\ mem = [r \in Regions |-> Buffer(SizeT(MaxHigh, UINT32_MAX))]
    /\ heap = [a \in 1..MaxAddr |-> Slot("unused")]
    /\ g_snapshot_sequence = U32Zero
    /\ g_snapshot_initialized = 0
    /\ call = NoCall
    /\ wlog = <<>>
    /\ hist = NoHist
    /\ copy = NoCopy
    /\ fn = NoFn
    /\ sim = NoSim

\* the record take fills in for size bytes of a zero-filled origin
WideSnapshot(state, size, g) ==
    [st |-> "live", original_state |-> state, snapshot_data |-> Buffer(size),
     size |-> size, checksum |-> U32Zero, sequence |-> g, active |-> 1,
     captured |-> Buffer(size)]

WideTake ==
    \E state \in Regions, size \in WideSizes :
        LET chk  == TakeArgCheck(state, IF size = SizeT(0, U32Zero) THEN 0 ELSE 1, 1)
            args == <<state, size, 1>>
            g0   == IF g_snapshot_initialized = 0 THEN U32Zero
                    ELSE g_snapshot_sequence
        IN  /\ wlog' = <<>>
            /\ UNCHANGED <<copy, fn, sim>>
            /\ IF chk.ret # SBM_OK
               THEN /\ UNCHANGED <<mem, heap, g_snapshot_sequence,
                                   g_snapshot_initialized, hist>>
                    /\ call' = Call("take", args, NULL, chk.ret, chk.sink)
               ELSE \/ \* malloc of the record or of the data buffer returns NULL
                       /\ g_snapshot_sequence' = g0
                       /\ g_snapshot_initialized' = 1
                       /\ UNCHANGED <<mem, heap, hist>>
                       /\ call' = Call("take", args, NULL, SBM_ERR_UNKNOWN, <<>>)
                    \/ \E a \in FreeAddrs :
                           /\ U32Less(g0, ToU32(MaxSeq))
                           /\ heap' = [heap EXCEPT ![a] = WideSnapshot(state, size, g0)]
                           /\ g_snapshot_sequence' = NextSequence(g0)
                           /\ g_snapshot_initialized' = 1
                           /\ hist' = [hist EXCEPT !.any = TRUE, !.last = g0,
                                                    !.reinit = FALSE,
                                                    !.preinit = @ \ {a}]
                           /\ UNCHANGED mem
                           /\ call' = Call("take", args, a, SBM_OK, <<>>)

\* the buffers handed to the writer and the lengths passed with them
WideFields(snapshot) ==
    <<[data |-> Encode32(SBM_SNAPSHOT_MAGIC), len |-> SizeT(0, ToU32(4))],
      [data |-> Encode32(snapshot.sequence), len |-> SizeT(0, ToU32(4))],
      [data |-> Encode32(snapshot.checksum), len |-> SizeT(0, ToU32(4))],
      [data |-> Encode32(CastU32(snapshot.size)), len |-> SizeT(0, ToU32(4))],
      [data |-> snapshot.snapshot_data, len |-> snapshot.size]>>

\* the invocations export makes; only the sign of what the writer returns
\* matters to export: -1 where the writer fails, 1 elsewhere
RECURSIVE WideWriterRun(_, _, _)
WideWriterRun(fields, w, k) ==
    IF k > Len(fields) THEN <<>>
    ELSE LET r == IF w.at = k /\ w.kind = "error" THEN 0 - 1 ELSE 1
             e == [data |-> fields[k].data, len |-> fields[k].len, ret |-> r]
         IN  IF WriterFailed(r) THEN <<e>> ELSE <<e>> \o WideWriterRun(fields, w, k + 1)

\* export of a live snapshot: active is 1 and the checksum of zero bytes
\* matches, so the writer calls are reached
WideExport ==
    \E h \in LiveHandles, w \in {FullWriter} \cup [at : 1..5, kind : {"error"}] :
        LET run == WideWriterRun(WideFields(heap[h]), w, 1)
        IN  /\ GuardPtr(h) = <<>>
            /\ heap[h].active # 0
            /\ wlog' = run
            /\ heap' = ExportHeap(heap, h)
            /\ UNCHANGED <<mem, g_snapshot_sequence, g_snapshot_initialized,
                           hist, copy, fn, sim>>
            /\ call' = Call("export", <<1>>, h,
                            IF WriterFailed(run[Len(run)].ret)
                            THEN SBM_ERR_UNKNOWN ELSE SBM_OK, <<>>)

WideCommit == \E h \in LiveHandles : SnapshotCommit(h)

WideNext ==
    \/ WideTake
    \/ WideExport
    \/ WideCommit

SpecWide == WideInit /\ [][WideNext]_vars

(* ---------------- state_manager.c: the earlier implementation ------------ *)
\* Its record, sbm_snapshot_t, has neither checksum nor sequence.  Each call
\* is an operator from the caller's buffers m and its own heap lh to the
\* status returned and the two afterwards.
LegacySlot(st) ==
    [st |-> st, original_state |-> NULL, snapshot_data |-> <<>>, size |-> 0,
     active |-> 0]

LegacyResult(ret, m, lh) == [ret |-> ret, mem |-> m, heap |-> lh]

\* sbm_snapshot_begin; a is what malloc returned for the record (NULL: one
\* of the two allocations failed)
LegacyBegin(m, lh, state, size, hp, a) ==
    IF GUARD_PTR(state).returned THEN LegacyResult(GUARD_PTR(state).ret, m, lh)
    ELSE IF GUARD_PTR(hp).returned THEN LegacyResult(GUARD_PTR(hp).ret, m, lh)
    ELSE IF size = 0 THEN LegacyResult(SBM_ERR_UNKNOWN, m, lh)
    ELSE IF a = NULL THEN LegacyResult(SBM_ERR_UNKNOWN, m, lh)
    ELSE LegacyResult(SBM_OK, m,
             [lh EXCEPT ![a] =
                 [st |-> "live", original_state |-> state,
                  snapshot_data |-> [i \in 1..size |-> m[state][i]],
                  size |-> size, active |-> 1]])

\* sbm_snapshot_commit through the handle of an allocated record
LegacyCommit(m, lh, h) ==
    IF GUARD_PTR(h).returned THEN LegacyResult(GUARD_PTR(h).ret, m, lh)
    ELSE IF lh[h].active = 0 THEN LegacyResult(SBM_ERR_INCONSISTENT, m, lh)
    ELSE LegacyResult(SBM_OK, m, [lh EXCEPT ![h] = LegacySlot("freed")])

LegacyRollbackNoRestore(m, lh, h) == LegacyCommit(m, lh, h)

\* sbm_snapshot_rollback through the handle of an allocated record
LegacyRollback(m, lh, h) ==
    IF GUARD_PTR(h).returned THEN LegacyResult(GUARD_PTR(h).ret, m, lh)
    ELSE IF lh[h].active = 0 THEN LegacyResult(SBM_ERR_INCONSISTENT, m, lh)
    ELSE LegacyResult(SBM_OK,
             [m EXCEPT ![lh[h].original_state] =
                 [i \in DOMAIN @ |->
                     IF i <= lh[h].size THEN lh[h].snapshot_data[i] ELSE @[i]]],
             [lh EXCEPT ![h] = LegacySlot("freed")])

\* the heap of state_manager.c that corresponds to a heap of sbm_snapshot.c:
\* the same records without checksum and sequence
LegacyHeap(hp) ==
    [a \in DOMAIN hp |->
        [st |-> hp[a].st, original_state |-> hp[a].original_state,
         snapshot_data |-> hp[a].snapshot_data, size |-> hp[a].size,
         active |-> hp[a].active]]

(* ------------------------ SpecSim: run_simulation ----------------------- *)
\* int buffer_size = 100
buffer_size == 100

\* mt19937_randint(&rng, min, max) when the generator's next output is raw
mt19937_randint(raw, min, max) == min + (raw % (max - min))

FitsWhileNotFull(used, request) == used <= buffer_size

\* buffer_used + request <= buffer_size
Fits(used, request) == used + request <= buffer_size

\* the amount a deallocation takes from used units in use, raw being the
\* generator's output if one is drawn for it (lines 137-138)
Dealloc(used, raw) ==
    LET dealloc == IF used < 11 THEN used ELSE mt19937_randint(raw, 1, 11)
    IN  IF dealloc > used THEN used ELSE dealloc

\* the locals before the first iteration; refused counts the iterations
\* that took the else branch of the allocation test
SimInit ==
    /\ mem = [r \in Regions |-> Zeros(RegionLen)]
    /\ heap = [a \in 1..1 |-> Slot("unused")]
    /\ g_snapshot_sequence = U32Zero
    /\ g_snapshot_initialized = 0
    /\ call = NoCall
    /\ wlog = <<>>
    /\ hist = NoHist
    /\ copy = NoCopy
    /\ fn = NoFn
    /\ sim = [step |-> 0, buffer_used |-> 0, overflow_count |-> 0,
              request |-> 0, success |-> TRUE, dealloc |-> 0, refused |-> 0]

\* the iteration that draws rawRequest for the request and, where the code
\* draws them, low (the double drawn for the deallocation test is below
\* 0.1) and rawDealloc (the output drawn for the deallocation amount)
Iterate(rawRequest, low, rawDealloc) ==
    LET request == mt19937_randint(rawRequest, 1, 11)
        success == Fits(sim.buffer_used, request)
        used    == IF success THEN sim.buffer_used + request
                   ELSE sim.buffer_used
        dealloc == IF used > 0 /\ low THEN Dealloc(used, rawDealloc) ELSE 0
    IN  [step |-> sim.step + 1,
         buffer_used |-> used - dealloc,
         overflow_count |-> IF success THEN sim.overflow_count
                            ELSE sim.overflow_count + 1,
         request |-> request, success |-> success,
         dealloc |-> dealloc,
         refused |-> IF used = sim.buffer_used THEN sim.refused + 1
                     ELSE sim.refused]

\* one iteration of the loop; the double is drawn only when buffer_used > 0
\* after the allocation, and the deallocation amount only when that double
\* is below 0.1 and buffer_used >= 11
SimStep ==
    /\ sim.step < MaxSteps
    /\ \E rawRequest \in 0..MaxDraw :
          LET after == Iterate(rawRequest, FALSE, 0).buffer_used
          IN  \/ sim' = Iterate(rawRequest, FALSE, 0)
              \/ /\ after > 0
                 /\ after < 11
                 /\ sim' = Iterate(rawRequest, TRUE, 0)
              \/ /\ after >= 11
                 /\ \E rawDealloc \in 0..MaxDraw :
                       sim' = Iterate(rawRequest, TRUE, rawDealloc)
    /\ UNCHANGED <<mem, heap, g_snapshot_sequence, g_snapshot_initialized,
                   call, wlog, hist, copy, fn>>

SimNext == SimStep

SpecSim == SimInit /\ [][SimNext]_vars

(* ============================== claims ================================ *)
\* the payload still holds the bytes copied at take
Uncorrupted(a) == heap[a].snapshot_data = heap[a].captured

\* the step just taken was the call op on handle h
Stepped(op, h) == call'.op = op /\ call'.handle = h

\* the data handed to the writer, invocation by invocation
Stream(l) == [k \in DOMAIN l |-> l[k].data]

\* C1: rollback of an Active snapshot whose payload still holds the bytes
\* copied at take returns SBM_OK and leaves the first size bytes of origin
\* equal to those bytes, whatever the caller wrote to origin and however
\* often the snapshot was exported in between.
C1_RollbackRestoresTakenBytes ==
    [][\A h \in Addr :
          (IsLive(h) /\ Uncorrupted(h) /\ Stepped("rollback", h))
              => /\ call'.ret = SBM_OK
                 /\ \A i \in 1..heap[h].size :
                        mem'[heap[h].original_state][i] = heap[h].captured[i]]_vars

\* a rollback returned SBM_OK and changed origin: the caller had written to
\* origin after the take
C1_Witness ==
    /\ call.op = "rollback"
    /\ call.ret = SBM_OK
    /\ call.wrote
    /\ ~call.dangling

\* C2 as claimed: whenever the payload of an Active snapshot differs from the
\* bytes copied at take, rollback returns SBM_ERR_INCONSISTENT, leaves origin
\* as it was and ends the snapshot.
C2_AnyPayloadChangeDetected ==
    [][\A h \in Addr :
          (IsLive(h) /\ ~Uncorrupted(h) /\ Stepped("rollback", h))
              => /\ call'.ret = SBM_ERR_INCONSISTENT
                 /\ mem' = mem
                 /\ heap'[h].st # "live"]_vars

\* payload bytes that differ from the bytes copied at take
ChangedBytes(a) ==
    {i \in 1..heap[a].size : heap[a].snapshot_data[i] # heap[a].captured[i]}

\* C2 as amended: when the changed payload's digest differs from the stored
\* checksum, and in particular when exactly one byte was changed, rollback
\* returns SBM_ERR_INCONSISTENT, leaves origin as it was and ends the snapshot.
C2_DigestMismatchFailsSafe ==
    [][\A h \in Addr :
          (/\ IsLive(h)
           /\ \/ sbm_checksum(FALSE, heap[h].snapshot_data) # heap[h].checksum
              \/ Cardinality(ChangedBytes(h)) = 1
           /\ Stepped("rollback", h))
              => /\ call'.ret = SBM_ERR_INCONSISTENT
                 /\ mem' = mem
                 /\ heap'[h].st # "live"]_vars

\* a rollback of a live snapshot was refused and wrote nothing, while origin
\* had been changed since the take
C2_Witness ==
    /\ call.op = "rollback"
    /\ call.ret = SBM_ERR_INCONSISTENT
    /\ ~call.dangling
    /\ ~call.wrote
    /\ heap[call.handle].st = "freed"

\* C3: once commit or rollback has been called with a handle, every later
\* commit or rollback with that handle returns SBM_ERR_INCONSISTENT and
\* changes neither the caller's buffers nor any snapshot.
C3_SecondTerminalCallInconsistent ==
    [][\A h \in hist.ended :
          (Stepped("commit", h) \/ Stepped("rollback", h))
              => /\ call'.ret = SBM_ERR_INCONSISTENT
                 /\ mem' = mem
                 /\ heap' = heap]_vars

\* C4: take never writes the caller's buffers, and commit of an Active
\* snapshot returns SBM_OK and leaves them as they were just before it.
C4_TakeAndCommitLeaveOrigin ==
    [][/\ call'.op = "take" => mem' = mem
       /\ \A h \in Addr :
            (IsLive(h) /\ Stepped("commit", h))
                => (call'.ret = SBM_OK /\ mem' = mem)]_vars

\* a commit of a live snapshot returned SBM_OK
C4_Witness ==
    /\ call.op = "commit"
    /\ call.ret = SBM_OK
    /\ ~call.dangling
    /\ ~call.wrote

C7_ExportIsRepeatableRead ==
    [][\A h \in Addr :
          IsLive(h) =>
            /\ (Stepped("export", h) /\ call'.ret = SBM_OK)
                  => /\ heap' = heap
                     /\ mem' = mem
                     /\ g_snapshot_sequence' = g_snapshot_sequence
                     /\ (call.op = "export" /\ call.handle = h
                         /\ call.ret = SBM_OK)
                            => Stream(wlog') = Stream(wlog)
            /\ (/\ call.op = "export" /\ call.handle = h /\ call.ret = SBM_OK
                /\ (Stepped("commit", h) \/ Stepped("rollback", h)))
                  => call'.ret = SBM_OK]_vars

\* an export returned SBM_OK after all five writer invocations and the
\* snapshot is still live
C7_Witness ==
    /\ call.op = "export"
    /\ call.ret = SBM_OK
    /\ ~call.dangling
    /\ Len(wlog) = 5
    /\ heap[call.handle].st = "live"

\* the framing of a successful export of snapshot s, read back from the log
ExportFraming(s) ==
    /\ Len(wlog) = 5
    /\ \A k \in 1..4 : Len(wlog[k].data) = 4
    /\ Len(wlog[5].data) = s.size
    /\ Decode32(wlog[1].data) = SBM_SNAPSHOT_MAGIC
    /\ Decode32(wlog[2].data) = s.sequence
    /\ Decode32(wlog[3].data) = sbm_checksum(FALSE, wlog[5].data)
    /\ Decode32(wlog[4].data) = ToU32(Len(wlog[5].data))

\* C8: a successful export makes five writer invocations, magic, sequence,
\* checksum, size, payload, of lengths 4, 4, 4, 4, size; they decode to the
\* magic constant, the sequence number take assigned, the digest of the
\* payload and its length; the payload is the stored one, which for a
\* snapshot nothing but the API has touched is the bytes origin held at take.
C8_ExportEmitsTakenBytes ==
    (call.op = "export" /\ call.ret = SBM_OK)
        => /\ ExportFraming(heap[call.handle])
           /\ wlog[5].data = heap[call.handle].snapshot_data
           /\ Uncorrupted(call.handle)
                 => wlog[5].data = heap[call.handle].captured

\* an export succeeded on an unchanged payload that differs from what origin
\* holds now
C8_Witness ==
    /\ call.op = "export"
    /\ call.ret = SBM_OK
    /\ Len(wlog) = 5
    /\ Uncorrupted(call.handle)
    /\ \E i \in 1..heap[call.handle].size :
           wlog[5].data[i] # mem[heap[call.handle].original_state][i]

\* C9: an export during which the writer returned less than the length it
\* was asked to write returns SBM_ERR_UNKNOWN.
C9_ShortWriteIsUnknown ==
    (/\ call.op = "export"
     /\ \E k \in DOMAIN wlog :
            wlog[k].ret >= 0 /\ wlog[k].ret < Len(wlog[k].data))
        => call.ret = SBM_ERR_UNKNOWN

\* C10 as claimed: take returns SBM_ERR_NULL whenever origin is NULL and
\* SBM_ERR_UNKNOWN whenever size is 0, and creates no snapshot then.
C10_TakeRejectsNullAndZero ==
    [][call'.op = "take" =>
          /\ call'.args[1] = NULL => call'.ret = SBM_ERR_NULL
          /\ call'.args[2] = 0 => call'.ret = SBM_ERR_UNKNOWN
          /\ (call'.args[1] = NULL \/ call'.args[2] = 0) => heap' = heap]_vars

\* C10 as amended: take returns SBM_ERR_NULL whenever origin or the handle
\* pointer is NULL, SBM_ERR_UNKNOWN when size is 0 and both are non-null, and
\* creates no snapshot in either case.
C10_TakeChecksPointersThenSize ==
    [][call'.op = "take" =>
          /\ (call'.args[1] = NULL \/ call'.args[3] = NULL)
                => call'.ret = SBM_ERR_NULL
          /\ (call'.args[1] # NULL /\ call'.args[3] # NULL /\ call'.args[2] = 0)
                => call'.ret = SBM_ERR_UNKNOWN
          /\ (call'.args[1] = NULL \/ call'.args[3] = NULL \/ call'.args[2] = 0)
                => heap' = heap]_vars

\* a take of size 0 with both pointers valid returned SBM_ERR_UNKNOWN while a
\* snapshot was live
C10_Witness ==
    /\ call.op = "take"
    /\ call.args = <<1, 0, 1>>
    /\ call.ret = SBM_ERR_UNKNOWN
    /\ LiveHandles # {}

\* C11: the handle a successful take returns is one no earlier take has
\* returned, whether or not the snapshot it named has ended since.
C11_HandleNeverReturnedTwice ==
    [][(call'.op = "take" /\ call'.ret = SBM_OK)
          => call'.handle \notin Handles]_vars

\* C14: a commit, rollback or export that returns SBM_ERR_INCONSISTENT, and a
\* take that returns any failure status, has handed that status to
\* sbm_failure_handler exactly once.
C14_SinkSeesEveryFailure ==
    /\ (call.op \in {"commit", "rollback", "export"}
        /\ call.ret = SBM_ERR_INCONSISTENT) => call.sink = <<call.ret>>
    /\ (call.op = "take" /\ call.ret # SBM_OK) => call.sink = <<call.ret>>

\* what commit or rollback (op) through the handle h of an allocated record
\* returns and leaves behind, given the caller's buffers m and the registry hp
TerminalOutcome(op, m, hp, h) ==
    LET snapshot == hp[h]
    IN  IF snapshot.active = 0
        THEN [ret |-> SBM_ERR_INCONSISTENT, mem |-> m, heap |-> hp]
        ELSE IF op = "commit"
        THEN [ret |-> SBM_OK, mem |-> CommitOrigin(m, snapshot),
              heap |-> FreeSnapshot(hp, h)]
        ELSE IF ~ChecksumValid(snapshot)
        THEN [ret |-> SBM_ERR_INCONSISTENT, mem |-> m,
              heap |-> FreeSnapshot(hp, h)]
        ELSE [ret |-> SBM_OK, mem |-> Restore(m, snapshot),
              heap |-> FreeSnapshot(hp, h)]

\* opA through A, then opB through B, from the current state: the two
\* statuses and the caller's buffers at the end
InOrder(opA, A, opB, B) ==
    LET o1 == TerminalOutcome(opA, mem, heap, A)
        o2 == TerminalOutcome(opB, o1.mem, o1.heap, B)
    IN  [first |-> o1.ret, second |-> o2.ret, mem |-> o2.mem]

Commute(opA, A, opB, B) ==
    LET ab == InOrder(opA, A, opB, B)
        ba == InOrder(opB, B, opA, A)
    IN  ab.first = ba.second /\ ab.second = ba.first /\ ab.mem = ba.mem

TerminalOps == {"commit", "rollback"}

\* the commit and rollback steps are the ones TerminalOutcome describes
TerminalStepsAsDescribed ==
    \A h \in LiveHandles, op \in TerminalOps :
        Stepped(op, h) =>
            LET o == TerminalOutcome(op, mem, heap, h)
            IN  call'.ret = o.ret /\ mem' = o.mem /\ heap' = o.heap

\* C12 as claimed: for any two distinct Active snapshots and any two terminal
\* operations, either order gives the same statuses and the same buffers.
C12_TerminalOpsCommute ==
    \A A \in LiveHandles, B \in LiveHandles, opA \in TerminalOps, opB \in TerminalOps :
        A # B => Commute(opA, A, opB, B)

\* C12 as amended: either order gives the same statuses; it gives the same
\* buffers when the two snapshots have different origins or at most one of
\* the two operations is a rollback.
C12_TerminalOpsCommuteOnDistinctOrigins ==
    [][/\ TerminalStepsAsDescribed
       /\ \A A \in LiveHandles, B \in LiveHandles, opA \in TerminalOps,
             opB \in TerminalOps :
             A # B =>
               LET ab == InOrder(opA, A, opB, B)
                   ba == InOrder(opB, B, opA, A)
               IN  /\ ab.first = ba.second
                   /\ ab.second = ba.first
                   /\ (\/ heap[A].original_state # heap[B].original_state
                       \/ opA = "commit"
                       \/ opB = "commit") => ab.mem = ba.mem]_vars

\* one snapshot has been rolled back, changing its origin, while another
\* whose rollback would change its own origin is live, and some buffer has
\* no live snapshot of it
C12_Witness ==
    /\ call.op = "rollback"
    /\ call.ret = SBM_OK
    /\ call.wrote
    /\ \E b \in LiveHandles : mem[heap[b].original_state] # heap[b].snapshot_data
    /\ \E r \in DOMAIN mem : \A b \in LiveHandles : heap[b].original_state # r

\* C13: the payload a take has stored is what origin held at one instant of
\* the call, and while a rollback restores, origin holds either what it held
\* before or the whole payload, unless something else wrote it meanwhile.
C13_CopiesAreAtomic ==
    /\ (copy.pc = "idle" /\ call.op = "take" /\ call.ret = SBM_OK)
          => heap[call.handle].snapshot_data \in copy.seen
    /\ (copy.pc = "restore" /\ ~copy.written)
          => mem[copy.state] \in {copy.before, copy.buf}

GuardMacros == {"GUARD_PTR", "GUARD_INDEX", "CHECK_LOOP_LIMIT", "SBM_ASSERT"}

\* the last use of a guard macro met the violation the macro looks for
Violated ==
    CASE fn.op = "GUARD_PTR" -> fn.args[1] = NULL
      [] fn.op = "GUARD_INDEX" -> fn.args[1] >= fn.args[2]
      [] fn.op = "SBM_ASSERT" -> ~fn.args[1]
      [] fn.op = "CHECK_LOOP_LIMIT" ->
             U32Less(fn.ctx.max_iterations, fn.ctx.iteration)

\* the status that macro reports for it
ViolationStatus ==
    CASE fn.op = "GUARD_PTR" -> SBM_ERR_NULL
      [] fn.op = "GUARD_INDEX" -> SBM_ERR_OOB
      [] fn.op = "SBM_ASSERT" -> fn.args[2]
      [] fn.op = "CHECK_LOOP_LIMIT" -> SBM_ERR_TIMEOUT

\* C15: a guard macro that meets a violation hands its status to the sink
\* exactly once, the function returns that status, and the statement after
\* the guard does not run; a guard that passes hands the sink nothing and
\* the function goes on.
C15_GuardReportsOnceAndReturns ==
    fn.op \in GuardMacros =>
        IF Violated
        THEN fn.sink = <<ViolationStatus>> /\ fn.ret = ViolationStatus /\ ~fn.after
        ELSE fn.sink = <<>> /\ fn.after /\ fn.ret = SBM_OK

\* GUARD_INDEX met index == length: reported once, returned, nothing ran after
C15_Witness ==
    /\ fn.op = "GUARD_INDEX"
    /\ fn.args = <<MaxIndex, MaxIndex>>
    /\ fn.sink = <<SBM_ERR_OOB>>
    /\ fn.ret = SBM_ERR_OOB
    /\ ~fn.after

\* the step is one use of CHECK_LOOP_LIMIT on the context
LoopGuardCalled == fn'.op = "CHECK_LOOP_LIMIT" /\ fn'.calls = U32Inc(fn.calls)

\* C16: on a context set up with max_iterations = N, whatever N, each of
\* the first N uses of the loop guard passes and use N + 1 fails with
\* SBM_ERR_TIMEOUT.
C16_LoopGuardFailsAtNPlusOne ==
    [][LoopGuardCalled =>
          /\ U32Less(fn.calls, fn.ctx.max_iterations) => fn'.ret = SBM_OK
          /\ fn.calls = fn.ctx.max_iterations => fn'.ret = SBM_ERR_TIMEOUT]_vars

\* C17: a status other than SBM_OK that reaches SBM_PROPAGATE_STATUS is what
\* the function returns, at every level, and the statement after it does not
\* run; SBM_OK lets the function go on; and the sink has seen what the
\* innermost function handed it and nothing more.
C17_PropagateKeepsStatus ==
    fn.op = "SBM_PROPAGATE_STATUS" =>
        LET fired  == ~fn.args[2]
            status == IF fired THEN fn.args[3] ELSE SBM_OK
        IN  /\ status # SBM_OK => (fn.ret = status /\ ~fn.after)
            /\ status = SBM_OK => (fn.ret = SBM_OK /\ fn.after)
            /\ fn.sink = IF fired THEN <<fn.args[3]>> ELSE <<>>

\* SBM_ERR_TIMEOUT came up through MaxDepth callers and was reported once
C17_Witness ==
    /\ fn.op = "SBM_PROPAGATE_STATUS"
    /\ fn.args = <<MaxDepth, FALSE, SBM_ERR_TIMEOUT>>
    /\ fn.ret = SBM_ERR_TIMEOUT
    /\ fn.sink = <<SBM_ERR_TIMEOUT>>

\* C18: sbm_check_bounds returns SBM_OK when index < length and SBM_ERR_OOB
\* otherwise, and never anything else.
C18_BoundsHalfOpen ==
    fn.op = "sbm_check_bounds" =>
        /\ fn.args[1] < fn.args[2] => fn.ret = SBM_OK
        /\ fn.args[1] >= fn.args[2] => fn.ret = SBM_ERR_OOB

\* index == length was refused
C18_Witness ==
    /\ fn.op = "sbm_check_bounds"
    /\ fn.args = <<MaxIndex, MaxIndex>>
    /\ fn.ret = SBM_ERR_OOB

\* the bytes with positions i and j exchanged
Exchanged(bytes, i, j) ==
    [k \in DOMAIN bytes |->
        IF k = i THEN bytes[j] ELSE IF k = j THEN bytes[i] ELSE bytes[k]]

\* C19 as claimed: every permutation of the bytes just digested that is a
\* different sequence has a different digest (inputs of up to DigestLen
\* bytes).
C19_EveryPermutationChangesDigest ==
    (fn.op = "sbm_checksum" /\ ~fn.args[1] /\ Len(fn.args[2]) <= DigestLen) =>
        \A p \in Permutations(DOMAIN fn.args[2]) :
            LET q == [k \in DOMAIN fn.args[2] |-> fn.args[2][p[k]]]
            IN  q # fn.args[2] => sbm_checksum(FALSE, q) # fn.ret

\* C19 as amended: exchanging two unequal bytes that are fewer than 32
\* positions apart changes the digest.
C19_ExchangeChangesDigest ==
    (fn.op = "sbm_checksum" /\ ~fn.args[1]) =>
        \A i \in DOMAIN fn.args[2], j \in DOMAIN fn.args[2] :
            (i < j /\ j - i < 32 /\ fn.args[2][i] # fn.args[2][j])
                => sbm_checksum(FALSE, Exchanged(fn.args[2], i, j)) # fn.ret

\* a sequence of three different bytes was digested
C19_Witness ==
    /\ fn.op = "sbm_checksum"
    /\ fn.args = <<FALSE, <<0, 1, 2>>>>
    /\ fn.ret = U32Zero

\* the reference fold on sets of bit positions 0..31: rotating left by one
\* moves every position up by one modulo 32, XOR is symmetric difference
BitsOf(n, width) == {k \in 0..(width - 1) : (n \div (2 ^ k)) % 2 = 1}

BitsOfU32(u) == BitsOf(u[2], 16) \cup {k + 16 : k \in BitsOf(u[1], 16)}

RefStep(acc, b) ==
    LET rotated == {(k + 1) % 32 : k \in acc}
    IN  (rotated \ BitsOf(b, 8)) \cup (BitsOf(b, 8) \ rotated)

RECURSIVE RefFold(_, _)
RefFold(bytes, n) ==
    IF n = 0 THEN {} ELSE RefStep(RefFold(bytes, n - 1), bytes[n])

\* C20: sbm_checksum returns 0 for a null pointer or an empty range, and
\* otherwise the value of the reference fold over the bytes in order.
C20_ChecksumIsReferenceFold ==
    fn.op = "sbm_checksum" =>
        IF fn.args[1] \/ fn.args[2] = <<>>
        THEN fn.ret = U32Zero
        ELSE BitsOfU32(fn.ret) = RefFold(fn.args[2], Len(fn.args[2]))

\* a byte 0xFF followed by 31 zero bytes was digested: its top bit has gone
\* round to bit 31 and the others past it to bits 0..6
C20_Witness ==
    /\ fn.op = "sbm_checksum"
    /\ fn.args = <<FALSE, <<255>> \o Zeros(31)>>
    /\ fn.ret = <<Half \div 2, 127>>

\* C21: a use of the loop guard on a context whose iteration is above
\* max_iterations fails with SBM_ERR_TIMEOUT, and no use of the loop guard
\* leaves iteration lower than it found it.
C21_ExhaustedStaysExhausted ==
    [][LoopGuardCalled =>
          /\ U32Less(fn.ctx.max_iterations, fn.ctx.iteration)
                => fn'.ret = SBM_ERR_TIMEOUT
          /\ ~U32Less(fn'.ctx.iteration, fn.ctx.iteration)]_vars

\* the digest of the stored payload differs from the stored checksum
DigestMismatch(a) ==
    sbm_checksum(FALSE, heap[a].snapshot_data) # heap[a].checksum

\* the call before this step was an export through h that was refused
ExportRefused(h) ==
    call.op = "export" /\ call.handle = h /\ call.ret = SBM_ERR_INCONSISTENT

\* C22: export of an Active snapshot whose payload does not match its stored
\* checksum returns SBM_ERR_INCONSISTENT, never invokes the writer and leaves
\* the snapshot, the caller's buffers and the counter as they were; a commit
\* that follows returns SBM_OK and a rollback that follows returns
\* SBM_ERR_INCONSISTENT, neither writing origin.
C22_ExportRefusesMismatchKeepsSnapshot ==
    [][\A h \in Addr :
          (IsLive(h) /\ heap[h].active # 0 /\ DigestMismatch(h)) =>
            /\ Stepped("export", h)
                  => /\ call'.ret = SBM_ERR_INCONSISTENT
                     /\ wlog' = <<>>
                     /\ heap' = heap
                     /\ mem' = mem
                     /\ g_snapshot_sequence' = g_snapshot_sequence
            /\ (ExportRefused(h) /\ Stepped("commit", h))
                  => (call'.ret = SBM_OK /\ mem' = mem)
            /\ (ExportRefused(h) /\ Stepped("rollback", h))
                  => (call'.ret = SBM_ERR_INCONSISTENT /\ mem' = mem)]_vars

\* an export of a live snapshot with a mismatching payload was refused,
\* nothing was handed to the writer and the snapshot is still Active
C22_Witness ==
    /\ call.op = "export"
    /\ call.ret = SBM_ERR_INCONSISTENT
    /\ ~call.dangling
    /\ wlog = <<>>
    /\ IsLive(call.handle)
    /\ heap[call.handle].active = 1
    /\ DigestMismatch(call.handle)

\* the invocations of the export just made on which the writer returned a
\* negative value
NegativeReturns == {k \in DOMAIN wlog' : wlog'[k].ret < 0}

\* C23: when the writer returns a negative value on its k-th invocation
\* during an export of an Active snapshot, export returns SBM_ERR_UNKNOWN,
\* that invocation is the last one, the k - 1 before it were handed the
\* first k - 1 fields in full, and the snapshot, its payload, the caller's
\* buffers and the counter are as they were.
C23_WriterErrorStopsExport ==
    [][\A h \in Addr :
          (IsLive(h) /\ Stepped("export", h) /\ NegativeReturns # {}) =>
            \E k \in 1..5 :
                /\ NegativeReturns = {k}
                /\ Len(wlog') = k
                /\ \A j \in 1..k : wlog'[j].data = ExportFields(heap[h])[j]
                /\ \A j \in 1..(k - 1) : wlog'[j].ret = Len(wlog'[j].data)
                /\ call'.ret = SBM_ERR_UNKNOWN
                /\ heap' = heap
                /\ mem' = mem
                /\ g_snapshot_sequence' = g_snapshot_sequence]_vars

\* the writer returned a negative value on its third invocation: export
\* returned SBM_ERR_UNKNOWN after three invocations and the snapshot is live
C23_Witness ==
    /\ call.op = "export"
    /\ call.ret = SBM_ERR_UNKNOWN
    /\ ~call.dangling
    /\ Len(wlog) = 3
    /\ wlog[3].ret < 0
    /\ IsLive(call.handle)
    /\ heap[call.handle].active = 1

\* C24 as claimed: commit of an Active snapshot whose payload differs from
\* the bytes copied at take returns SBM_OK and leaves origin as it was, while
\* rollback and export of that snapshot return SBM_ERR_INCONSISTENT.
C24_CommitIgnoresCorruptionOthersRefuse ==
    [][\A h \in Addr :
          (IsLive(h) /\ heap[h].active # 0 /\ ~Uncorrupted(h)) =>
            /\ Stepped("commit", h) => (call'.ret = SBM_OK /\ mem' = mem)
            /\ (Stepped("rollback", h) \/ (Stepped("export", h) /\ call'.args[1] # NULL))
                  => call'.ret = SBM_ERR_INCONSISTENT]_vars

\* C24 as amended: commit of an Active snapshot whose payload differs from
\* the bytes copied at take returns SBM_OK and leaves origin as it was;
\* rollback and export of that snapshot return SBM_ERR_INCONSISTENT when the
\* digest of the payload differs from the stored checksum.
C24_CommitIgnoresCorruption ==
    [][\A h \in Addr :
          (IsLive(h) /\ heap[h].active # 0 /\ ~Uncorrupted(h)) =>
            /\ Stepped("commit", h) => (call'.ret = SBM_OK /\ mem' = mem)
            /\ (/\ DigestMismatch(h)
                /\ Stepped("rollback", h) \/ (Stepped("export", h) /\ call'.args[1] # NULL))
                  => call'.ret = SBM_ERR_INCONSISTENT]_vars

\* a commit returned SBM_OK and wrote nothing on a snapshot whose payload had
\* been altered
C24_Witness ==
    /\ call.op = "commit"
    /\ call.ret = SBM_OK
    /\ call.altered
    /\ ~call.wrote

\* C25: the size field a successful export emits, read as a 32-bit number,
\* is the length passed to the writer with the payload.
C25_SizeFieldIsPayloadLength ==
    (call.op = "export" /\ call.ret = SBM_OK)
        => wlog[5].len = SizeT(0, Decode32(wlog[4].data))

C27_NoUseAfterFree == ~call.dangling

\* the sequence number the next successful take will assign: the counter,
\* or 0 when take's lazy initialisation is still to run
NextAssigned ==
    IF g_snapshot_initialized = 0 THEN U32Zero ELSE g_snapshot_sequence

\* C28: a take that returns a failure status stores no handle through the
\* output pointer, leaves the caller's buffers and every heap slot as they
\* were, and leaves the sequence number the next successful take will get
\* unchanged.
C28_FailedTakeChangesNothing ==
    [][(call'.op = "take" /\ call'.ret # SBM_OK)
          => /\ call'.handle = NULL
             /\ mem' = mem
             /\ heap' = heap
             /\ NextAssigned' = NextAssigned]_vars

\* with valid arguments an allocation failed, after an earlier take had
\* succeeded: one snapshot is live and the counter still stands at 1
C28_Witness ==
    /\ call.op = "take"
    /\ call.ret = SBM_ERR_UNKNOWN
    /\ call.args[1] # NULL /\ call.args[2] # 0 /\ call.args[3] # NULL
    /\ Cardinality(LiveHandles) = 1
    /\ g_snapshot_sequence = ToU32(1)

\* C29: the allocated records are the Active snapshots, each with its
\* payload buffer; a record is released only by a commit or rollback through
\* its handle; a commit or rollback that gets as far as its free calls
\* (commit returning SBM_OK, rollback returning SBM_OK) releases storage that
\* was allocated until then; and export allocates and releases nothing.
C29_StorageIsTheActiveSnapshots ==
    [][/\ \A a \in Addr :
            /\ IsLive(a)' => (heap'[a].active = 1
                              /\ Len(heap'[a].snapshot_data) = heap'[a].size)
            /\ (IsLive(a) /\ ~IsLive(a)')
                  => (Stepped("commit", a) \/ Stepped("rollback", a))
       /\ (call'.op \in TerminalOps /\ call'.ret = SBM_OK)
            => (IsLive(call'.handle) /\ heap'[call'.handle].st = "freed")
       /\ call'.op = "export" => heap' = heap]_vars

\* the result of this step of sbm_snapshot.c is the result o of
\* state_manager.c: same status, same buffers, corresponding heaps
SameAsLegacy(o) ==
    call'.ret = o.ret /\ mem' = o.mem /\ LegacyHeap(heap') = o.heap

\* C30: started from corresponding states and given the same answers from
\* malloc, every begin, and every commit and rollback through the handle of
\* an allocated record, returns in sbm_snapshot.c the status it returns in
\* state_manager.c and leaves the same buffers and corresponding heaps; the
\* caller's own writes keep the states corresponding.  So the two give the
\* same statuses and buffers step by step along every run in which payloads
\* are not altered and no handle is used after its commit or rollback.
C30_LegacyEquivalent ==
    [][LET lh == LegacyHeap(heap)
       IN  /\ call'.op = "take"
                => SameAsLegacy(LegacyBegin(mem, lh, call'.args[1], call'.args[2],
                                            call'.args[3], call'.handle))
           /\ (call'.op = "commit" /\ ~call'.dangling)
                => SameAsLegacy(LegacyCommit(mem, lh, call'.handle))
           /\ (call'.op = "rollback" /\ ~call'.dangling)
                => SameAsLegacy(LegacyRollback(mem, lh, call'.handle))
           /\ call'.op = "mutate" => LegacyHeap(heap') = lh]_vars

\* a rollback through the handle of an allocated record has restored an
\* origin the caller had written, after an earlier snapshot had been ended
\* and while another is live
C30_Witness ==
    /\ call.op = "rollback"
    /\ call.ret = SBM_OK
    /\ call.wrote
    /\ ~call.dangling
    /\ hist.ended # {call.handle}
    /\ LiveHandles # {}

\* C31: after every iteration of run_simulation, 0 <= buffer_used <=
\* buffer_size; the request was granted only if it fitted into what was free
\* before; the deallocation took no more than was in use after the
\* allocation; and overflow_count is the number of iterations whose request
\* was refused.
C31_BufferStaysWithinBounds ==
    [][sim'.step = sim.step + 1 =>
          LET granted == IF sim'.success THEN sim'.request ELSE 0
          IN  /\ sim'.buffer_used >= 0
              /\ sim'.buffer_used <= buffer_size
              /\ sim'.request \in 1..10
              /\ sim'.success => sim.buffer_used + sim'.request <= buffer_size
              /\ sim'.dealloc >= 0
              /\ sim'.dealloc <= sim.buffer_used + granted
              /\ sim'.buffer_used = sim.buffer_used + granted - sim'.dealloc
              /\ sim'.overflow_count = sim'.refused]_vars

\* a request has been refused for the second time: it did not fit into a
\* buffer with more than 90 units in use
C31_Witness ==
    /\ sim.step > 0
    /\ ~sim.success
    /\ sim.overflow_count = 2
    /\ sim.buffer_used + sim.request > buffer_size

====
